---------------------------- MODULE Spec2Model ----------------------------
(***************************************************************************)
(* gh-asset: download of one GitHub issue/PR asset (src/src/main.rs).      *)
(* A Rust String / &str is a sequence of one-character strings; a PathBuf  *)
(* is the character sequence it was built from, as std::path keeps it.     *)
(* Paths and the file system are those of a Unix target.                   *)
(***************************************************************************)
EXTENDS Integers, Sequences, FiniteSets, TLC

Min(a, b) == IF a < b THEN a ELSE b

(* ---------------------------- str primitives --------------------------- *)

\* &s[i..] : the suffix that starts after the first n characters
DropFirst(s, n) == SubSeq(s, n + 1, Len(s))

\* str::starts_with
StartsWith(s, pre) == Len(pre) <= Len(s) /\ SubSeq(s, 1, Len(pre)) = pre

\* str::ends_with
EndsWith(s, suf) ==
    Len(suf) <= Len(s) /\ SubSeq(s, Len(s) - Len(suf) + 1, Len(s)) = suf

\* str::contains(&str)
Contains(s, sub) ==
    \E i \in 0..(Len(s) - Len(sub)) : SubSeq(s, i + 1, i + Len(sub)) = sub

\* str::find(&str): 0-based index of the first match, -1 for None
Find(s, sub) ==
    IF Contains(s, sub)
    THEN CHOOSE i \in 0..(Len(s) - Len(sub)) :
            /\ SubSeq(s, i + 1, i + Len(sub)) = sub
            /\ \A j \in 0..(i - 1) : SubSeq(s, j + 1, j + Len(sub)) # sub
    ELSE -1

\* str::rfind(char): 0-based index of the last match, -1 for None
RFind(s, c) ==
    IF \E i \in 1..Len(s) : s[i] = c
    THEN (CHOOSE i \in 1..Len(s) : s[i] = c /\ \A j \in (i + 1)..Len(s) : s[j] # c) - 1
    ELSE -1

\* s.split(c).next(): the text before the first c, all of s when there is none
SplitFirst(s, c) ==
    LET i == Find(s, <<c>>) IN IF i < 0 THEN s ELSE SubSeq(s, 1, i)

\* s.matches(c).count()
RECURSIVE CountChar(_, _)
CountChar(s, c) ==
    IF s = <<>> THEN 0
    ELSE (IF Head(s) = c THEN 1 ELSE 0) + CountChar(Tail(s), c)

\* char::is_whitespace, on the characters the model uses
Whitespace == {" ", "\t", "\n"}

RECURSIVE TrimStart(_)
TrimStart(s) ==
    IF s # <<>> /\ Head(s) \in Whitespace THEN TrimStart(Tail(s)) ELSE s

RECURSIVE TrimEnd(_)
TrimEnd(s) ==
    IF s # <<>> /\ s[Len(s)] \in Whitespace
    THEN TrimEnd(SubSeq(s, 1, Len(s) - 1)) ELSE s

\* str::trim
Trim(s) == TrimEnd(TrimStart(s))

\* Every string over alphabet A of length at most n
StringsUpTo(A, n) == UNION { [1..k -> A] : k \in 0..n }

(* ------------------------- character classes --------------------------- *)

Digits == {"0", "1", "2", "3", "4", "5", "6", "7", "8", "9"}
LowerHex == {"a", "b", "c", "d", "e", "f"}
UpperHex == {"A", "B", "C", "D", "E", "F"}
Lower == LowerHex \cup {"g", "h", "i", "j", "k", "l", "m", "n", "o", "p", "q",
                        "r", "s", "t", "u", "v", "w", "x", "y", "z"}
Upper == UpperHex \cup {"G", "H", "I", "J", "K", "L", "M", "N", "O", "P", "Q",
                        "R", "S", "T", "U", "V", "W", "X", "Y", "Z"}
\* [a-fA-F0-9]
IsHex(c) == c \in Digits \cup LowerHex \cup UpperHex
\* [a-zA-Z0-9]
IsAlnum(c) == c \in Digits \cup Lower \cup Upper
\* [a-zA-Z0-9\-]
IsAlnumHyphen(c) == IsAlnum(c) \/ c = "-"

\* Characters outside ASCII take several bytes of a str: "é" takes two
Utf8Width(c) == IF c = "é" THEN 2 ELSE 1

\* str::len: the length in bytes
RECURSIVE ByteLen(_)
ByteLen(s) == IF s = <<>> THEN 0 ELSE Utf8Width(Head(s)) + ByteLen(Tail(s))

(* ------------------------ asset id and asset URL ----------------------- *)

MinIdLen == 20
MaxIdLen == 50

\* ^[a-fA-F0-9]{8}-[a-fA-F0-9]{4}-[a-fA-F0-9]{4}-[a-fA-F0-9]{4}-[a-fA-F0-9]{12}$
UuidHyphenAt == {9, 14, 19, 24}
UuidLen == 36
MatchesUuid(s) ==
    /\ Len(s) = UuidLen
    /\ \A i \in 1..Len(s) :
          IF i \in UuidHyphenAt THEN s[i] = "-" ELSE IsHex(s[i])

\* ^[a-zA-Z0-9][a-zA-Z0-9\-]{18,48}[a-zA-Z0-9]$
GithubBodyMin == 18
GithubBodyMax == 48
\* The same with `.` for the body's character class
MatchesGithub_any_body(s) ==
    /\ Len(s) >= GithubBodyMin + 2
    /\ Len(s) <= GithubBodyMax + 2
    /\ IsAlnum(s[1])
    /\ IsAlnum(s[Len(s)])

MatchesGithub(s) ==
    /\ Len(s) >= GithubBodyMin + 2
    /\ Len(s) <= GithubBodyMax + 2
    /\ IsAlnum(s[1])
    /\ IsAlnum(s[Len(s)])
    /\ \A i \in 2..(Len(s) - 1) : IsAlnumHyphen(s[i])

MinHyphens == 2

is_valid_asset_id(asset_id) ==
    IF ByteLen(asset_id) < MinIdLen \/ ByteLen(asset_id) > MaxIdLen THEN FALSE
    ELSE IF ~Contains(asset_id, <<"-">>) THEN FALSE
    ELSE IF MatchesUuid(asset_id) THEN TRUE
    ELSE MatchesGithub(asset_id) /\ CountChar(asset_id, "-") >= MinHyphens

AssetUrlPrefix ==
    <<"h","t","t","p","s",":","/","/","g","i","t","h","u","b",".","c","o","m","/",
      "u","s","e","r","-","a","t","t","a","c","h","m","e","n","t","s","/",
      "a","s","s","e","t","s","/">>

\* Result<String>: [ok |-> TRUE, val |-> url] or [ok |-> FALSE, err |-> kind]
Ok(v) == [ok |-> TRUE, val |-> v]
Err(e) == [ok |-> FALSE, err |-> e]

build_asset_url(asset_id) ==
    IF ~is_valid_asset_id(asset_id) THEN Err("InvalidAssetId")
    ELSE Ok(AssetUrlPrefix \o asset_id)

(* ------------------------------ std::path ------------------------------ *)

None == [some |-> FALSE]
Some(v) == [some |-> TRUE, val |-> v]

\* Path::is_absolute (Unix): the text starts with the root
is_absolute(p) == p # <<>> /\ Head(p) = "/"

\* The text between the separators, empty pieces included
RECURSIVE Segments(_)
Segments(p) ==
    LET i == Find(p, <<"/">>) IN
    IF i < 0 THEN <<p>>
    ELSE <<SubSeq(p, 1, i)>> \o Segments(DropFirst(p, i + 1))

IsName(seg) == seg # <<>> /\ seg # <<".">>

\* Path::components, the Normal ones: empty pieces and `.` are dropped.  A
\* destination that holds `..` never gets this far (validate_destination_path)
Components(p) == SelectSeq(Segments(p), IsName)

\* Path::file_name
file_name(p) ==
    LET c == Components(p) IN IF c = <<>> THEN None ELSE Some(c[Len(c)])

\* Path::parent, as the components of the parent
parent(p) ==
    LET c == Components(p) IN
    IF c = <<>> THEN None ELSE Some(SubSeq(c, 1, Len(c) - 1))

\* PathBuf::join / PathBuf::push
join(base, p) ==
    IF is_absolute(p) THEN p
    ELSE IF base # <<>> /\ base[Len(base)] # "/" THEN base \o <<"/">> \o p
    ELSE base \o p

\* Path::starts_with, on components
IsPrefix(a, b) == Len(a) <= Len(b) /\ SubSeq(b, 1, Len(a)) = a

\* A trailing separator or a trailing `.` makes the kernel require a directory
MustDir(p) ==
    LET s == Segments(p) IN
    /\ Len(s) > 1
    /\ s[Len(s)] \in {<<>>, <<".">>}

(* ----------------------------- file system ----------------------------- *)
(* A file system maps the component list of every existing entry (the root *)
(* is <<>> and always a directory) to its node.  Links hold an absolute    *)
(* target.                                                                 *)

Dir == [k |-> "dir"]
File(d) == [k |-> "file", data |-> d]
Link(to) == [k |-> "link", to |-> to]

KindAt(f, at) == IF at = <<>> THEN "dir" ELSE f[at].k

\* The kernel follows at most this many links in one lookup
MaxLinks == 3

\* Path lookup from the directory cur.  st is "ok" (at: the entry, links
\* resolved), "missing" (only the last component does not exist; at: where
\* O_CREAT would create it), "noent", "notdir" or "loop".
RECURSIVE Walk(_, _, _, _)
Walk(f, cur, rest, budget) ==
    IF rest = <<>> THEN [st |-> "ok", at |-> cur]
    ELSE LET p == Append(cur, Head(rest)) IN
         IF p \notin DOMAIN f
         THEN IF Tail(rest) = <<>> THEN [st |-> "missing", at |-> p]
              ELSE [st |-> "noent", at |-> p]
         ELSE IF f[p].k = "dir" THEN Walk(f, p, Tail(rest), budget)
         ELSE IF f[p].k = "file"
         THEN IF Tail(rest) = <<>> THEN [st |-> "ok", at |-> p]
              ELSE [st |-> "notdir", at |-> p]
         ELSE IF budget = 0 THEN [st |-> "loop", at |-> p]
         ELSE Walk(f, <<>>, f[p].to \o Tail(rest), budget - 1)

\* stat(2) of a path text
Lookup(f, p) ==
    LET r == Walk(f, <<>>, Components(p), MaxLinks) IN
    IF MustDir(p) /\ r.st = "ok" /\ KindAt(f, r.at) # "dir"
    THEN [st |-> "notdir", at |-> r.at]
    ELSE IF MustDir(p) /\ r.st = "missing" THEN [st |-> "noent", at |-> r.at]
    ELSE r

\* Path::exists
exists(f, p) == Lookup(f, p).st = "ok"

\* Path::is_dir
is_dir(f, p) == LET r == Lookup(f, p) IN r.st = "ok" /\ KindAt(f, r.at) = "dir"

\* Path::canonicalize: the components of the real path
canonicalize(f, p) ==
    LET r == Lookup(f, p) IN IF r.st = "ok" THEN Ok(r.at) ELSE Err(r.st)

\* The same two for a parent given by its components
comps_exist(f, c) == Walk(f, <<>>, c, MaxLinks).st = "ok"
comps_canonical(f, c) == Walk(f, <<>>, c, MaxLinks).at

\* std::fs::create_dir_all of the directory with components rest, below cur:
\* [ok, fs, made]: the new file system and the directories created
RECURSIVE MkdirAll(_, _, _, _)
MkdirAll(f, cur, rest, made) ==
    IF rest = <<>> THEN [ok |-> TRUE, fs |-> f, made |-> made]
    ELSE LET p == Append(cur, Head(rest)) IN
         IF p \notin DOMAIN f
         THEN MkdirAll((p :> Dir) @@ f, p, Tail(rest), made \cup {p})
         ELSE IF f[p].k = "dir" THEN MkdirAll(f, p, Tail(rest), made)
         ELSE IF f[p].k = "file" THEN [ok |-> FALSE, fs |-> f, made |-> made]
         ELSE LET r == Walk(f, <<>>, f[p].to, MaxLinks - 1) IN
              IF r.st = "ok" /\ KindAt(f, r.at) = "dir"
              THEN MkdirAll(f, r.at, Tail(rest), made)
              ELSE [ok |-> FALSE, fs |-> f, made |-> made]

create_dir_all(f, c) == MkdirAll(f, <<>>, c, {})

\* File::create + write_all + sync_all: open(O_WRONLY|O_CREAT|O_TRUNC), which
\* follows a link in the last component, then the bytes.
\* [ok, fs, at]: at is the entry written
file_create_write(f, p, bytes) ==
    LET r == Lookup(f, p) IN
    IF MustDir(p) THEN [ok |-> FALSE, fs |-> f, at |-> <<>>]
    ELSE IF r.st = "ok" /\ KindAt(f, r.at) = "file"
    THEN [ok |-> TRUE, fs |-> [f EXCEPT ![r.at] = File(bytes)], at |-> r.at]
    ELSE IF r.st = "missing"
    THEN [ok |-> TRUE, fs |-> (r.at :> File(bytes)) @@ f, at |-> r.at]
    ELSE [ok |-> FALSE, fs |-> f, at |-> <<>>]

(* ---------------------- validate_destination_path ---------------------- *)

\* std::env::current_dir(): the working directory, a real path
current_dir == <<"/", "w">>
current_dir_comps == Components(current_dir)

SystemPrefixes ==
    <<  <<"/","e","t","c">>, <<"/","u","s","r">>, <<"/","v","a","r">>,
        <<"/","s","y","s">>, <<"/","p","r","o","c">>, <<"/","r","o","o","t">>,
        <<"/","b","o","o","t">> >>

starts_with_system_dir(path_str) ==
    \E i \in 1..Len(SystemPrefixes) : StartsWith(path_str, SystemPrefixes[i])

\* lines 180-184
resolved_path(destination) ==
    IF ~is_absolute(destination) THEN join(current_dir, destination)
    ELSE destination

\* lines 187-210: FALSE when the check returns the "within current directory"
\* error.  An existing parent always canonicalizes, so line 204 is not taken.
within_current_dir(f, destination) ==
    LET resolved == resolved_path(destination)
        canonical == canonicalize(f, resolved)
        par == parent(resolved)
    IN  IF is_absolute(destination) THEN TRUE
        ELSE IF canonical.ok THEN IsPrefix(current_dir_comps, canonical.val)
        ELSE IF par.some /\ comps_exist(f, par.val)
        THEN IsPrefix(current_dir_comps, comps_canonical(f, par.val))
        ELSE TRUE

\* lines 213-218
invalid_filename(destination) ==
    LET name == file_name(destination) IN
    /\ name.some
    /\ (Contains(name.val, <<"NUL">>) \/ Trim(name.val) = <<>>)

\* The same with the system-directory check made before the `..` check
validate_destination_path_prefix_first(f, destination) ==
    IF is_absolute(destination) /\ starts_with_system_dir(destination)
    THEN Err("SystemDirectoryDenied")
    ELSE IF Contains(destination, <<".", ".">>) THEN Err("PathTraversal")
    ELSE IF ~within_current_dir(f, destination)
    THEN Err("OutsideWorkingDirectory")
    ELSE IF invalid_filename(destination) THEN Err("InvalidFilename")
    ELSE Ok(resolved_path(destination))

validate_destination_path(f, destination) ==
    IF Contains(destination, <<".", ".">>) THEN Err("PathTraversal")
    ELSE IF is_absolute(destination) /\ starts_with_system_dir(destination)
    THEN Err("SystemDirectoryDenied")
    ELSE IF ~within_current_dir(f, destination)
    THEN Err("OutsideWorkingDirectory")
    ELSE IF invalid_filename(destination) THEN Err("InvalidFilename")
    ELSE Ok(resolved_path(destination))

(* -------------------------- extension resolver ------------------------- *)

DefaultExtension == <<".", "b", "i", "n">>

extract_extension_from_url(url) ==
    LET url_path == SplitFirst(url, "?")
        filename_start == RFind(url_path, "/")
        filename == DropFirst(url_path, filename_start + 1)
        ext_pos == RFind(filename, ".")
    IN  IF filename_start >= 0 /\ ext_pos >= 0
        THEN Some(DropFirst(filename, ext_pos))
        ELSE None

FilenameKey == <<"f","i","l","e","n","a","m","e","=">>

extract_filename_from_disposition(disposition) ==
    LET filename_start == Find(disposition, FilenameKey)
        filename_part == DropFirst(disposition, filename_start + Len(FilenameKey))
        unquoted == DropFirst(filename_part, 1)
        end_quote == Find(unquoted, <<"\"">>)
        filename == Trim(SplitFirst(filename_part, ";"))
    IN  IF filename_start < 0 THEN None
        ELSE IF StartsWith(filename_part, <<"\"">>)
        THEN IF end_quote >= 0 THEN Some(SubSeq(unquoted, 1, end_quote)) ELSE None
        ELSE IF filename # <<>> THEN Some(filename)
        ELSE None

get_extension_from_mime_type(mime_type) ==
    CASE
          mime_type = <<"i","m","a","g","e","/","p","n","g">> -> <<".","p","n","g">>
       [] mime_type = <<"i","m","a","g","e","/","j","p","e","g">> -> <<".","j","p","g">>
       [] mime_type = <<"i","m","a","g","e","/","j","p","g">> -> <<".","j","p","g">>
       [] mime_type = <<"i","m","a","g","e","/","g","i","f">> -> <<".","g","i","f">>
       [] mime_type = <<"i","m","a","g","e","/","w","e","b","p">> -> <<".","w","e","b","p">>
       [] mime_type = <<"i","m","a","g","e","/","b","m","p">> -> <<".","b","m","p">>
       [] mime_type = <<"i","m","a","g","e","/","t","i","f","f">> -> <<".","t","i","f","f">>
       [] mime_type = <<"i","m","a","g","e","/","s","v","g","+","x","m","l">> -> <<".","s","v","g">>
       [] mime_type = <<"a","p","p","l","i","c","a","t","i","o","n","/","p","d","f">> -> <<".","p","d","f">>
       [] mime_type = <<"t","e","x","t","/","p","l","a","i","n">> -> <<".","t","x","t">>
       [] mime_type = <<"t","e","x","t","/","h","t","m","l">> -> <<".","h","t","m","l">>
       [] mime_type = <<"t","e","x","t","/","c","s","s">> -> <<".","c","s","s">>
       [] mime_type = <<"t","e","x","t","/","j","a","v","a","s","c","r","i","p","t">> -> <<".","j","s">>
       [] mime_type = <<"a","p","p","l","i","c","a","t","i","o","n","/","j","a","v","a","s","c","r","i","p","t">> -> <<".","j","s">>
       [] mime_type = <<"a","p","p","l","i","c","a","t","i","o","n","/","j","s","o","n">> -> <<".","j","s","o","n">>
       [] mime_type = <<"a","p","p","l","i","c","a","t","i","o","n","/","x","m","l">> -> <<".","x","m","l">>
       [] mime_type = <<"a","p","p","l","i","c","a","t","i","o","n","/","z","i","p">> -> <<".","z","i","p">>
       [] mime_type = <<"a","p","p","l","i","c","a","t","i","o","n","/","g","z","i","p">> -> <<".","g","z">>
       [] mime_type = <<"a","p","p","l","i","c","a","t","i","o","n","/","x","-","t","a","r">> -> <<".","t","a","r">>
       [] mime_type = <<"v","i","d","e","o","/","m","p","4">> -> <<".","m","p","4">>
       [] mime_type = <<"v","i","d","e","o","/","m","p","e","g">> -> <<".","m","p","g">>
       [] mime_type = <<"v","i","d","e","o","/","q","u","i","c","k","t","i","m","e">> -> <<".","m","o","v">>
       [] mime_type = <<"a","u","d","i","o","/","m","p","e","g">> -> <<".","m","p","3">>
       [] mime_type = <<"a","u","d","i","o","/","w","a","v">> -> <<".","w","a","v">>
       [] mime_type = <<"a","u","d","i","o","/","o","g","g">> -> <<".","o","g","g">>
       [] OTHER -> DefaultExtension

\* An HTTP header of a response: absent, present but not visible ASCII
\* (HeaderValue::to_str fails), or present with its text
NoHeader == [present |-> FALSE]
OpaqueHeader == [present |-> TRUE, ascii |-> FALSE]
Header(s) == [present |-> TRUE, ascii |-> TRUE, str |-> s]
Readable(h) == h.present /\ h.ascii

is_redirection(status) == status >= 300 /\ status <= 399
is_success(status) == status >= 200 /\ status <= 299

\* The response the HEAD request did not get (send failed)
NoResponse == [sent |-> FALSE]
Response(st, loc, disp, ctype) ==
    [sent |-> TRUE, status |-> st, location |-> loc,
     disposition |-> disp, content_type |-> ctype]

\* lines 248-256
extension_from_redirect(response) ==
    IF is_redirection(response.status) /\ Readable(response.location)
    THEN extract_extension_from_url(response.location.str)
    ELSE None

\* The same taking the text after the `.`
extension_from_disposition_after_dot(response) ==
    LET filename == IF Readable(response.disposition)
                    THEN extract_filename_from_disposition(response.disposition.str)
                    ELSE None
    IN  IF filename.some /\ RFind(filename.val, ".") >= 0
        THEN Some(DropFirst(filename.val, RFind(filename.val, ".") + 1))
        ELSE None

\* lines 259-267
extension_from_disposition(response) ==
    LET filename == IF Readable(response.disposition)
                    THEN extract_filename_from_disposition(response.disposition.str)
                    ELSE None
    IN  IF filename.some /\ RFind(filename.val, ".") >= 0
        THEN Some(DropFirst(filename.val, RFind(filename.val, ".")))
        ELSE None

\* lines 269-274
extension_from_content_type(response) ==
    IF Readable(response.content_type)
    THEN Some(get_extension_from_mime_type(
                  Trim(SplitFirst(response.content_type.str, ";"))))
    ELSE None

\* The same with Content-Type asked before Content-Disposition
get_extension_from_url_type_first(response) ==
    IF ~response.sent THEN Err("HeadRequestFailed")
    ELSE IF extension_from_redirect(response).some
    THEN Ok(extension_from_redirect(response).val)
    ELSE IF is_success(response.status) /\ extension_from_content_type(response).some
    THEN Ok(extension_from_content_type(response).val)
    ELSE IF is_success(response.status) /\ extension_from_disposition(response).some
    THEN Ok(extension_from_disposition(response).val)
    ELSE Ok(DefaultExtension)

\* lines 233-278: Result<String> for the outcome of the HEAD request
get_extension_from_url(response) ==
    IF ~response.sent THEN Err("HeadRequestFailed")
    ELSE IF extension_from_redirect(response).some
    THEN Ok(extension_from_redirect(response).val)
    ELSE IF is_success(response.status) /\ extension_from_disposition(response).some
    THEN Ok(extension_from_disposition(response).val)
    ELSE IF is_success(response.status) /\ extension_from_content_type(response).some
    THEN Ok(extension_from_content_type(response).val)
    ELSE Ok(DefaultExtension)

(* --------------------------- GitHubAuth::new --------------------------- *)

\* What running `gh auth token` can give: the command does not start, ends
\* with a failure status, prints bytes that are not UTF-8, or prints a text
HelperNotRun == [ran |-> FALSE]
HelperFailed == [ran |-> TRUE, success |-> FALSE]
HelperGarbage == [ran |-> TRUE, success |-> TRUE, utf8 |-> FALSE]
HelperPrinted(s) == [ran |-> TRUE, success |-> TRUE, utf8 |-> TRUE, stdout |-> s]

GitHubAuth_new(output) ==
    IF ~output.ran THEN Err("AuthUnavailable")
    ELSE IF ~output.success THEN Err("AuthDenied")
    ELSE IF ~output.utf8 THEN Err("AuthEmpty")
    ELSE IF Trim(output.stdout) = <<>> THEN Err("AuthEmpty")
    ELSE Ok(Trim(output.stdout))

(* ------------------------ download_with_reqwest ------------------------ *)

\* The outcome of the GET: not sent, or a status with the body (None when
\* reading it fails)
GetFailed == [sent |-> FALSE]
GetResponse(st, body) == [sent |-> TRUE, status |-> st, body |-> body]

\* The same with the parent directories and the file created before the
\* response is looked at
download_with_reqwest_create_first(f, dest, response) ==
    LET par == parent(dest)
        mk == IF par.some THEN create_dir_all(f, par.val)
              ELSE [ok |-> TRUE, fs |-> f, made |-> {}]
        empty == file_create_write(mk.fs, dest, <<>>)
        wr == file_create_write(mk.fs, dest, response.body.val)
    IN  IF ~mk.ok
        THEN [res |-> Err("IoError"), fs |-> mk.fs, steps |-> <<"GET", "WRITE">>,
              touched |-> mk.made]
        ELSE IF ~empty.ok
        THEN [res |-> Err("IoError"), fs |-> mk.fs, steps |-> <<"GET", "WRITE">>,
              touched |-> mk.made]
        ELSE IF ~response.sent
        THEN [res |-> Err("SendFailed"), fs |-> empty.fs, steps |-> <<"GET", "WRITE">>,
              touched |-> mk.made \cup {empty.at}]
        ELSE IF ~is_success(response.status)
        THEN [res |-> Err("HttpError"), fs |-> empty.fs, steps |-> <<"GET", "WRITE">>,
              touched |-> mk.made \cup {empty.at}]
        ELSE IF ~response.body.some
        THEN [res |-> Err("BodyRead"), fs |-> empty.fs, steps |-> <<"GET", "WRITE">>,
              touched |-> mk.made \cup {empty.at}]
        ELSE [res |-> Ok(dest), fs |-> wr.fs, steps |-> <<"GET", "WRITE">>,
              touched |-> mk.made \cup {wr.at}]

\* lines 341-393.  [res, fs, steps, touched]: the result, the file system it
\* leaves, the visible steps in order, the entries created or written
download_with_reqwest(f, dest, response) ==
    LET par == parent(dest)
        mk == IF par.some THEN create_dir_all(f, par.val)
              ELSE [ok |-> TRUE, fs |-> f, made |-> {}]
        wr == file_create_write(mk.fs, dest, response.body.val)
    IN  IF ~response.sent
        THEN [res |-> Err("SendFailed"), fs |-> f, steps |-> <<"GET">>, touched |-> {}]
        ELSE IF ~is_success(response.status)
        THEN [res |-> Err("HttpError"), fs |-> f, steps |-> <<"GET">>, touched |-> {}]
        ELSE IF ~response.body.some
        THEN [res |-> Err("BodyRead"), fs |-> f, steps |-> <<"GET">>, touched |-> {}]
        ELSE IF ~mk.ok
        THEN [res |-> Err("IoError"), fs |-> mk.fs, steps |-> <<"GET", "WRITE">>,
              touched |-> mk.made]
        ELSE IF ~wr.ok
        THEN [res |-> Err("IoError"), fs |-> mk.fs, steps |-> <<"GET", "WRITE">>,
              touched |-> mk.made]
        ELSE [res |-> Ok(dest), fs |-> wr.fs, steps |-> <<"GET", "WRITE">>,
              touched |-> mk.made \cup {wr.at}]

(* ------------------------------ the program ---------------------------- *)

VARIABLES
    pc,                \* the call of main / download that runs next
    run,               \* the number of this invocation
    asset_id,          \* argument: the asset id
    destination,       \* argument: the destination
    fs,                \* the file system
    fs0,               \* history: the file system when this invocation began
    token,             \* GitHubAuth.token
    url,               \* download: url
    destination_path,  \* download: destination_path
    extension,         \* resolve_final_path: extension
    final_path,        \* download: final_path
    err,               \* the error main returns, "" when none
    events,            \* history: the visible steps of this invocation
    touched,           \* history: entries this invocation created or wrote
    head,              \* the server's answer to the HEAD request
    get,               \* the server's answer to the GET request
    first              \* history: how the first invocation ended

vars == <<pc, run, asset_id, destination, fs, fs0, token, url, destination_path,
          extension, final_path, err, events, touched, head, get, first>>

NotAsked == [asked |-> FALSE]
NoFirst == [ended |-> FALSE]

\* An error that is dropped instead of returned
Propagate_ignoring(r, next) == next

\* The `?` operator: go on with the value, or return the error
Propagate(r, next) == IF r.ok THEN next ELSE "failed"
ValueOf(r) == IF r.ok THEN r.val ELSE <<>>
ErrorOf(r) == IF r.ok THEN "" ELSE r.err

\* The number of invocations a behaviour holds
MaxRuns == 2

InitOver(Inputs) ==
    /\ \E i \in Inputs :
          /\ asset_id = i.id
          /\ destination = i.dest
          /\ fs = i.fs
          /\ fs0 = i.fs
    /\ pc = "new"
    /\ run = 1
    /\ token = <<>>
    /\ url = <<>>
    /\ destination_path = <<>>
    /\ extension = <<>>
    /\ final_path = <<>>
    /\ err = ""
    /\ events = <<>>
    /\ touched = {}
    /\ head = NotAsked
    /\ get = NotAsked
    /\ first = NoFirst

\* main, line 402: AssetDownloader::new
New(Helper) ==
    /\ pc = "new"
    /\ \E output \in Helper :
          LET r == GitHubAuth_new(output) IN
          /\ token' = ValueOf(r)
          /\ err' = ErrorOf(r)
          /\ pc' = Propagate(r, "build_asset_url")
    /\ events' = Append(events, "auth")
    /\ UNCHANGED <<run, asset_id, destination, fs, fs0, url, destination_path,
                   extension, final_path, touched, head, get, first>>

\* download, line 109
BuildAssetUrl ==
    /\ pc = "build_asset_url"
    /\ LET r == build_asset_url(asset_id) IN
          /\ url' = ValueOf(r)
          /\ err' = ErrorOf(r)
          /\ pc' = Propagate(r, "validate_destination_path")
    /\ events' = Append(events, "validate_id")
    /\ UNCHANGED <<run, asset_id, destination, fs, fs0, token, destination_path,
                   extension, final_path, touched, head, get, first>>

\* download, line 110
ValidateDestinationPath ==
    /\ pc = "validate_destination_path"
    /\ LET r == validate_destination_path(fs, destination) IN
          /\ destination_path' = ValueOf(r)
          /\ err' = ErrorOf(r)
          /\ pc' = Propagate(r, "resolve_final_path")
    /\ events' = Append(events, "validate_destination")
    /\ UNCHANGED <<run, asset_id, destination, fs, fs0, token, url, extension,
                   final_path, touched, head, get, first>>

\* The probe made for whatever exists
needs_probe_if_exists(f, dest) == exists(f, dest)

\* resolve_final_path, line 224: whether the HEAD probe is made
needs_probe(f, dest) == is_dir(f, dest)

\* resolve_final_path, lines 226-227
probed_path(dest, id, ext) == join(dest, id \o ext)

\* download, line 111.  The server answers a repeated request as before.
ResolveFinalPath(Heads) ==
    /\ pc = "resolve_final_path"
    /\ IF needs_probe(fs, destination_path)
       THEN \E response \in (IF head = NotAsked THEN Heads ELSE {head}) :
               LET r == get_extension_from_url(response) IN
               /\ head' = response
               /\ events' = Append(events, "HEAD")
               /\ extension' = ValueOf(r)
               /\ final_path' = IF r.ok
                                THEN probed_path(destination_path, asset_id, r.val)
                                ELSE <<>>
               /\ err' = ErrorOf(r)
               /\ pc' = Propagate(r, "download_with_reqwest")
       ELSE /\ final_path' = destination_path
            /\ pc' = "download_with_reqwest"
            /\ UNCHANGED <<head, events, extension, err>>
    /\ UNCHANGED <<run, asset_id, destination, fs, fs0, token, url, destination_path,
                   touched, get, first>>

\* download, line 112
DownloadWithReqwest(Gets) ==
    /\ pc = "download_with_reqwest"
    /\ \E response \in (IF get = NotAsked THEN Gets ELSE {get}) :
          LET d == download_with_reqwest(fs, final_path, response) IN
          /\ get' = response
          /\ fs' = d.fs
          /\ events' = events \o d.steps
          /\ touched' = d.touched
          /\ err' = ErrorOf(d.res)
          /\ pc' = Propagate(d.res, "done")
    /\ UNCHANGED <<run, asset_id, destination, fs0, token, url,
                   destination_path, extension, final_path, head, first>>

\* The same command is run again: a new process, the same arguments, the file
\* system as the run before left it
Rerun ==
    /\ pc \in {"done", "failed"}
    /\ run < MaxRuns
    /\ run' = run + 1
    /\ first' = IF run = 1
                THEN [ended |-> TRUE, ok |-> pc = "done", final_path |-> final_path,
                      fs |-> fs]
                ELSE first
    /\ pc' = "new"
    /\ token' = <<>>
    /\ url' = <<>>
    /\ destination_path' = <<>>
    /\ extension' = <<>>
    /\ final_path' = <<>>
    /\ err' = ""
    /\ events' = <<>>
    /\ touched' = {}
    /\ fs0' = fs
    /\ UNCHANGED <<asset_id, destination, fs, head, get>>

NextOver(Helper, Heads, Gets) ==
    \/ New(Helper)
    \/ BuildAssetUrl
    \/ ValidateDestinationPath
    \/ ResolveFinalPath(Heads)
    \/ DownloadWithReqwest(Gets)
    \/ Rerun

(* ------------------------------- inputs -------------------------------- *)

W == <<"w">>
O == <<"o">>
A == <<"a">>
L == <<"l">>

Old == <<"old">>
Body == <<"new">>

Absent == [k |-> "absent"]

\* A file system with the working directory /w, a directory /o outside it,
\* and the given entries at /w/a, /w/l, /o/a and /w/a/a
Layout(wa, wl, oa, waa) ==
    LET slot == [p \in {<<W, A>>, <<W, L>>, <<O, A>>, <<W, A, A>>} |->
                    IF p = <<W, A>> THEN wa
                    ELSE IF p = <<W, L>> THEN wl
                    ELSE IF p = <<O, A>> THEN oa
                    ELSE IF wa = Dir THEN waa ELSE Absent]
        present == {p \in DOMAIN slot : slot[p] # Absent}
    IN  [p \in present \cup {<<W>>, <<O>>} |->
            IF p \in present THEN slot[p] ELSE Dir]

EntryKinds ==
    {Absent, Dir, File(Old), Link(<<O>>), Link(<<O, A>>), Link(<<W, A>>),
     Link(<<W, L>>)}

LayoutsWide ==
    {Layout(wa, wl, oa, waa) :
        wa \in EntryKinds, wl \in EntryKinds,
        oa \in {Absent, Dir, File(Old)}, waa \in {Absent, File(Old)}}

LayoutsSmall ==
    {Layout(Dir, Absent, Absent, File(Old)),
     Layout(File(Old), Link(<<O>>), Dir, Absent),
     Layout(Dir, Link(<<O, A>>), Absent, Absent),
     Layout(Absent, Link(<<W, A>>), File(Old), Absent)}

ValidUuid == <<"1","2","3","4","a","b","c","d","-","1","2","3","4","-","1","2","3","4","-","1","2","3","4","-","1","2","3","4","a","b","c","d","1","2","3","4">>
ValidGithub == <<"g","h","-","a","s","s","e","t","-","0","1","2","3","4","5","6","7","8","9","z">>

IdsSmall == {ValidUuid, ValidGithub, <<"a","1","b","2","c","3","d","4","e","5">>, <<"a","b","c">>, <<".",".","/",".",".","/",".",".","/","e","t","c","/","p","a","s","s","w","d">>}

DestsSmall ==
    {<<".">>, <<"a">>, <<"a","/","a">>, <<"a","/">>, <<"l">>, <<"l","/","a">>, <<"l","/","a","/","a">>, <<>>, <<".",".","/","a">>, <<"/","e","t","c","/","p","a","s","s","w","d">>,
     <<"/","o","/","a">>, <<" ">>}

Token == <<"g","h","o","_","t","\n">>

HelperAll ==
    {HelperNotRun, HelperFailed, HelperGarbage, HelperPrinted(<<>>),
     HelperPrinted(<<" ","\n">>), HelperPrinted(Token)}

HelperFew == {HelperFailed, HelperPrinted(Token)}

HeadsSmall ==
    {NoResponse,
     Response(302, Header(<<"h","t","t","p","s",":","/","/","s","3",".","e","x","a","m","p","l","e","/","1","/","a","-","b",".","p","n","g","?","X","-","A","m","z","=","1">>), NoHeader,
              Header(<<"t","e","x","t","/","h","t","m","l">>)),
     Response(302, NoHeader, NoHeader, Header(<<"t","e","x","t","/","h","t","m","l">>)),
     Response(200, NoHeader, Header(<<"a","t","t","a","c","h","m","e","n","t",";"," ","f","i","l","e","n","a","m","e","=","\"","t","e","s","t",".","g","i","f","\"">>),
              Header(<<"i","m","a","g","e","/","j","p","e","g">>)),
     Response(200, NoHeader, NoHeader, Header(<<"a","p","p","l","i","c","a","t","i","o","n","/","p","d","f",";"," ","c","h","a","r","s","e","t","=","x">>)),
     Response(200, NoHeader, NoHeader, NoHeader),
     Response(404, NoHeader, NoHeader, Header(<<"t","e","x","t","/","h","t","m","l">>))}

HeadsFew == {Response(200, NoHeader, NoHeader, Header(<<"i","m","a","g","e","/","p","n","g">>))}

GetsSmall ==
    {GetFailed, GetResponse(200, Some(Body)), GetResponse(404, Some(Body)),
     GetResponse(200, None)}

GetsFew == {GetResponse(200, Some(Body))}

Inputs(Ids, Dests, Layouts) ==
    {[id |-> i, dest |-> d, fs |-> f] : i \in Ids, d \in Dests, f \in Layouts}

(* ---------------------------- specifications --------------------------- *)

Init == InitOver(Inputs(IdsSmall, DestsSmall, LayoutsSmall))
Next == NextOver(HelperAll, HeadsSmall, GetsSmall)
Spec == Init /\ [][Next]_vars

(* Asset ids: a valid id with one character replaced, cut or padded to      *)
(* every length up to MaxIdInput.                                           *)

MaxIdInput == 52

Mutate(s, i, c) == IF i = 0 THEN s ELSE [s EXCEPT ![i] = c]

Resize(s, n) ==
    IF n <= Len(s) THEN SubSeq(s, 1, n)
    ELSE s \o [k \in 1..(n - Len(s)) |-> "0"]

IdsWide ==
    {Resize(Mutate(b, i, c), n) :
        b \in {ValidUuid, ValidGithub}, i \in 0..MinIdLen,
        c \in {"-", "g", "@", "é"}, n \in 0..MaxIdInput}
    \cup {Mutate(ValidUuid, i, c) : i \in 1..UuidLen, c \in {"-", "g", "@", "0"}}

InitId == InitOver(Inputs(IdsWide, {<<"a">>}, {Layout(Dir, Absent, Absent, Absent)}))
NextFew == NextOver(HelperFew, HeadsFew, GetsFew)
SpecId == InitId /\ [][NextFew]_vars

(* Destinations: every text up to MaxDestLen over a small alphabet, alone   *)
(* and after a prefix.                                                      *)

MaxDestLen == 3

DestPrefixes ==
    {SystemPrefixes[i] : i \in 1..Len(SystemPrefixes)}
    \cup {<<>>, <<"/","e","t">>, <<"/","o">>, <<"e","t","c">>, <<"/",".">>}

DestsText ==
    {pre \o t : pre \in DestPrefixes, t \in StringsUpTo({"/", ".", "a", " "}, MaxDestLen)}

InitDest == InitOver(Inputs({ValidUuid}, DestsText, LayoutsSmall))
SpecDest == InitDest /\ [][NextFew]_vars

\* Relative destinations over the names of the layouts, in every layout
DestsRelative ==
    {t \in StringsUpTo({"/", ".", "a", "l"}, MaxDestLen) : ~is_absolute(t)}

InitFs == InitOver(Inputs({ValidUuid}, DestsRelative, LayoutsWide))
SpecFs == InitFs /\ [][NextFew]_vars

(* HEAD responses: every combination of some statuses and header values,    *)
(* and generated Location and Content-Disposition texts.                    *)

MaxUrlLen == 4
MaxNameLen == 4

Statuses == {200, 204, 302, 304, 404}

UrlPrefixes == {<<"s",":","/","/","h">>, <<"s",":","/","/","h",".","n">>}
UrlsWide ==
    {pre \o t : pre \in UrlPrefixes, t \in StringsUpTo({"/", ".", "?", "a"}, MaxUrlLen)}

LocationHeaders ==
    {NoHeader, OpaqueHeader, Header(<<"h","t","t","p","s",":","/","/","s","3",".","e","x","a","m","p","l","e","/","1","/","a","-","b",".","p","n","g","?","X","-","A","m","z","=","1",".","2">>),
     Header(<<"h","t","t","p","s",":","/","/","e","x","a","m","p","l","e",".","c","o","m","/","p","a","t","h","/","n","o","e","x","t","e","n","s","i","o","n">>), Header(<<"/","r","e","l","/","x",".","t","a","r",".","g","z">>),
     Header(<<"h","t","t","p","s",":","/","/","e","x","a","m","p","l","e",".","c","o","m","/","a",".">>)}

DispositionHeaders ==
    {NoHeader, OpaqueHeader, Header(<<"a","t","t","a","c","h","m","e","n","t",";"," ","f","i","l","e","n","a","m","e","=","\"","t","e","s","t",".","g","i","f","\"">>),
     Header(<<"a","t","t","a","c","h","m","e","n","t",";"," ","f","i","l","e","n","a","m","e","=","t","e","s","t",".","j","p","g">>), Header(<<"i","n","l","i","n","e">>),
     Header(<<"a","t","t","a","c","h","m","e","n","t",";"," ","f","i","l","e","n","a","m","e","=","\"","a","r","c","h","i","v","e",".","\"">>), Header(<<"a","t","t","a","c","h","m","e","n","t",";"," ","f","i","l","e","n","a","m","e","=","n","o","e","x","t",";","x">>),
     Header(<<"a","t","t","a","c","h","m","e","n","t",";"," ","f","i","l","e","n","a","m","e","=","\"","o","p","e","n",".","t","x","t">>), Header(<<"a","t","t","a","c","h","m","e","n","t",";"," ","f","i","l","e","n","a","m","e","=">>)}

ContentTypeHeaders ==
    {NoHeader, OpaqueHeader, Header(<<"i","m","a","g","e","/","p","n","g">>), Header(<<"a","p","p","l","i","c","a","t","i","o","n","/","p","d","f",";"," ","c","h","a","r","s","e","t","=","x">>),
     Header(<<"u","n","k","n","o","w","n","/","t","y","p","e">>), Header(<<"I","m","a","g","e","/","P","N","G">>), Header(<<>>), Header(<<"t","e","x","t","/","h","t","m","l">>)}

DispositionsWide ==
    {Header(FilenameKey \o t) : t \in StringsUpTo({".", "a", "\"", ";", " "}, MaxNameLen)}

HeadsWide ==
    {NoResponse}
    \cup {Response(st, loc, disp, ctype) :
            st \in Statuses, loc \in LocationHeaders,
            disp \in DispositionHeaders, ctype \in ContentTypeHeaders}
    \cup {Response(st, Header(u), NoHeader, ctype) :
            st \in {200, 302}, u \in UrlsWide, ctype \in {NoHeader, Header(<<"i","m","a","g","e","/","p","n","g">>)}}
    \cup {Response(200, NoHeader, disp, ctype) :
            disp \in DispositionsWide, ctype \in {NoHeader, Header(<<"i","m","a","g","e","/","p","n","g">>)}}

InitExt == InitOver(Inputs({ValidUuid}, {<<".">>}, {Layout(Dir, Absent, Absent, Absent)}))
NextExt == NextOver(HelperFew, HeadsWide, GetsFew)
SpecExt == InitExt /\ [][NextExt]_vars

(* ------------------------------ properties ----------------------------- *)

\* The step e was made in this invocation
Did(e) == \E i \in 1..Len(events) : events[i] = e

AuthErrors == {"AuthUnavailable", "AuthDenied", "AuthEmpty"}
ValidationErrors ==
    {"InvalidAssetId", "PathTraversal", "SystemDirectoryDenied",
     "OutsideWorkingDirectory", "InvalidFilename"}

\* C1: when the destination is a directory and the HEAD request fails, the
\* invocation goes on to the GET with the extension .bin
C1_ProbeFailureDegrades ==
    (Did("HEAD") /\ head = NoResponse /\ ~Did("GET"))
        => (pc = "download_with_reqwest" /\ extension = DefaultExtension)

\* C2: whatever an accepted relative destination makes the persist step
\* create or write lies inside the working directory
C2_WritesStayInWorkingDir ==
    (~is_absolute(destination) /\ Did("WRITE"))
        => \A p \in touched : IsPrefix(current_dir_comps, p)

\* C3: a destination holding `..` is rejected as path traversal, whatever else
\* it holds; an absolute one that starts with a system directory is rejected
\* as such; in every file system
C3_TextualRejections ==
    Did("validate_destination") =>
        /\ Contains(destination, <<".", ".">>)
              => (pc = "failed" /\ err = "PathTraversal")
        /\ (/\ ~Contains(destination, <<".", ".">>)
            /\ \E pre \in {<<"/","e","t","c">>, <<"/","u","s","r">>, <<"/","v","a","r">>, <<"/","s","y","s">>, <<"/","p","r","o","c">>, <<"/","r","o","o","t">>, <<"/","b","o","o","t">>} :
                  StartsWith(destination, pre))
              => (pc = "failed" /\ err = "SystemDirectoryDenied")

C3_Witness ==
    /\ Did("validate_destination")
    /\ StartsWith(destination, <<"/","e","t","c","/">>)
    /\ Contains(destination, <<".", ".">>)
    /\ err = "PathTraversal"

StepOrder == <<"auth", "validate_id", "validate_destination", "HEAD", "GET", "WRITE">>
Rank(e) == CHOOSE i \in 1..Len(StepOrder) : StepOrder[i] = e

C5_StepOrder ==
    /\ \A i, j \in 1..Len(events) : i < j => Rank(events[i]) < Rank(events[j])
    /\ \A i \in 1..Min(Len(events), 3) : events[i] = StepOrder[i]
    /\ Did("WRITE") => Did("GET")
    /\ err # "" => pc = "failed"
    /\ err \in AuthErrors \cup ValidationErrors
          => /\ ~Did("HEAD") /\ ~Did("GET") /\ ~Did("WRITE")
             /\ fs = fs0
             /\ touched = {}

C5_Witness == pc = "done" /\ events = StepOrder

\* C6 as stated: the extension is that of the first applicable source among
\* the redirect Location, the Content-Disposition filename of a successful
\* response, the Content-Type mapping, and .bin
C6_Priority_AsStated ==
    (Did("HEAD") /\ head.sent) =>
        extension =
            IF extension_from_redirect(head).some
            THEN extension_from_redirect(head).val
            ELSE IF is_success(head.status) /\ extension_from_disposition(head).some
            THEN extension_from_disposition(head).val
            ELSE IF Readable(head.content_type)
            THEN get_extension_from_mime_type(
                     Trim(SplitFirst(head.content_type.str, ";")))
            ELSE DefaultExtension

\* C6 amended: the same, with Content-Type asked only of a successful response
C6_Priority ==
    (Did("HEAD") /\ head.sent) =>
        extension =
            IF is_redirection(head.status) /\ Readable(head.location)
               /\ extract_extension_from_url(head.location.str).some
            THEN extract_extension_from_url(head.location.str).val
            ELSE IF is_success(head.status) /\ extension_from_disposition(head).some
            THEN extension_from_disposition(head).val
            ELSE IF is_success(head.status) /\ Readable(head.content_type)
            THEN get_extension_from_mime_type(
                     Trim(SplitFirst(head.content_type.str, ";")))
            ELSE DefaultExtension

C6_Witness ==
    /\ Did("HEAD")
    /\ head.sent
    /\ head.status = 302
    /\ head.location = Header(<<"h","t","t","p","s",":","/","/","s","3",".","e","x","a","m","p","l","e","/","1","/","a","-","b",".","p","n","g","?","X","-","A","m","z","=","1",".","2">>)
    /\ head.disposition = Header(<<"a","t","t","a","c","h","m","e","n","t",";"," ","f","i","l","e","n","a","m","e","=","\"","t","e","s","t",".","g","i","f","\"">>)
    /\ head.content_type = Header(<<"t","e","x","t","/","h","t","m","l">>)
    /\ extension = <<".","p","n","g">>

\* C7: every extension the resolver returns begins with `.`
C7_ExtensionStartsWithDot ==
    (Did("HEAD") /\ head.sent) => (extension # <<>> /\ Head(extension) = ".")

C7_Witness ==
    /\ Did("HEAD")
    /\ head.sent
    /\ head.disposition = Header(<<"a","t","t","a","c","h","m","e","n","t",";"," ","f","i","l","e","n","a","m","e","=","\"","a","r","c","h","i","v","e",".","\"">>)
    /\ extension = <<".">>

\* The path of an absolute URL, or of a relative reference, without its query
UrlPath(u) ==
    LET before_query == SplitFirst(u, "?")
        after_scheme == DropFirst(before_query, Find(before_query, <<":","/","/">>) + 3)
    IN  IF ~Contains(before_query, <<":","/","/">>) THEN before_query
        ELSE IF Find(after_scheme, <<"/">>) < 0 THEN <<>>
        ELSE DropFirst(after_scheme, Find(after_scheme, <<"/">>))

LastSegment(path) == DropFirst(path, RFind(path, "/") + 1)

\* C9: extract_extension_from_url returns the text from the last `.` of the
\* last segment of the URL's path, the query ignored, and nothing when that
\* segment holds no `.` (an empty path and a path ending in `/` included)
C9_UrlExtension ==
    (Did("HEAD") /\ head.sent /\ is_redirection(head.status) /\ Readable(head.location))
        => extract_extension_from_url(head.location.str) =
              LET seg == LastSegment(UrlPath(head.location.str)) IN
              IF RFind(seg, ".") >= 0 THEN Some(DropFirst(seg, RFind(seg, ".")))
              ELSE None

\* C8: a second run with the same arguments and the same responses, after a
\* first run that succeeded, succeeds with the same final path and leaves the
\* file system as the first run left it, the file holding the response body
C8_RerunIdempotent ==
    (run >= 2 /\ first.ok /\ pc \in {"done", "failed"} /\ err \notin AuthErrors)
        => /\ pc = "done"
           /\ final_path = first.final_path
           /\ fs = first.fs
           /\ fs[Lookup(fs, final_path).at] = File(get.body.val)

\* C10: the HEAD request is made exactly when the validated destination is a
\* directory; the final path is then the directory joined with the id and the
\* extension, and otherwise the validated destination
C10_ProbeIffDirectory ==
    /\ pc \in {"new", "build_asset_url", "validate_destination_path",
               "resolve_final_path"} => ~Did("HEAD")
    /\ pc = "download_with_reqwest" =>
          IF is_dir(fs, destination_path)
          THEN /\ Did("HEAD")
               /\ final_path =
                     (IF EndsWith(destination_path, <<"/">>) THEN destination_path
                      ELSE destination_path \o <<"/">>) \o asset_id \o extension
          ELSE /\ ~Did("HEAD")
               /\ final_path = destination_path
    /\ (pc = "failed" /\ Did("validate_destination") /\ err \notin ValidationErrors
          /\ ~Did("GET"))
          => (Did("HEAD") /\ is_dir(fs, destination_path))

C10_Witness ==
    /\ pc = "download_with_reqwest"
    /\ Did("HEAD")
    /\ destination_path = <<"/","w","/","a">>
    /\ final_path = <<"/","w","/","a","/">> \o asset_id \o <<".","g","i","f">>

\* C11: when the GET is not sent, answers with a status outside 2xx, or its
\* body cannot be read, the invocation ends in an error with the file system
\* as it was: no directory made, no file created or truncated; directories
\* and the file are made only after a 2xx response whose body was read
GetUnusable ==
    \/ ~get.sent
    \/ ~is_success(get.status)
    \/ ~get.body.some

C11_FailedGetLeavesFilesystem ==
    /\ (Did("GET") /\ GetUnusable)
          => /\ pc = "failed"
             /\ err \in {"SendFailed", "HttpError", "BodyRead"}
             /\ fs = fs0
             /\ touched = {}
             /\ ~Did("WRITE")
    /\ (Did("WRITE") \/ fs # fs0 \/ touched # {})
          => (Did("GET") /\ ~GetUnusable)

\* A 404 for a destination that is an existing file: the file keeps its bytes
C11_Witness ==
    /\ Did("GET")
    /\ get.sent
    /\ get.status = 404
    /\ pc = "failed"
    /\ final_path = <<"/","w","/","a","/","a">>
    /\ <<W, A, A>> \in DOMAIN fs
    /\ fs[<<W, A, A>>] = File(Old)
=============================================================================
